---- MODULE Spec2Model ----
(***************************************************************************)
(* Model of the migration reconciler of rove: the commands `up` (apply     *)
(* pending), `down` (revert last), `status` over a migrations directory on *)
(* disk and the `migrations` ledger table of a PostgreSQL database.        *)
(*                                                                         *)
(* Migration names are the integers 1..MaxNames; their integer order       *)
(* stands for the order of String.localeCompare on directory names.        *)
(* A SQL file is modelled by its content class: "absent" (no such file),   *)
(* "blank" (whitespace only), "ok" (SQL that executes) and "bad" (SQL the  *)
(* server rejects).  The schema is the set of migration names whose        *)
(* up.sql effects are in place.                                            *)
(*                                                                         *)
(* Each command invocation is its own process and connection.  The server  *)
(* clock advances between invocations and NOW() is constant inside one     *)
(* transaction, so the rows inserted by one apply batch share their run_on.*)
(* A script's statement fails exactly when its content is "bad"; a ledger  *)
(* INSERT or DELETE may fail for reasons outside the program (the `fault`  *)
(* choice).  process.exit ends the process at once: no finally block runs  *)
(* and the server aborts a transaction left open.                          *)
(*                                                                         *)
(* Three parts stand beside the reconciler, each with its own variable and *)
(* specification: `tree` spells out the directory names that `new` builds  *)
(* from the creation instant, `repl` is the interactive session of         *)
(* `connect`, and `race` interleaves the statements of two apply processes *)
(* on one database at the READ COMMITTED isolation level.                  *)
(***************************************************************************)
EXTENDS Integers, Sequences, FiniteSets, TLC

\* ------------------------------------------------------------------ bounds
MaxNames == 3
MaxRuns == 4
MaxDeepRuns == 6
HistLen == 2
MaxOpsRuns == 3
MaxNew == 3
MaxLines == 4

Names == 1..MaxNames
Contents == {"absent", "blank", "ok", "bad"}
EnvValues == {"undefined", "", "url"}

VARIABLES
  disk,      \* [root, dirs, up, down]: the migrations directory
  env,       \* [DATABASE_URL, POSTGRES_URL]: process.env
  db,        \* [table, ledger, schema]: the committed database state
  tx,        \* the open transaction of the running command, or NoTx
  clock,     \* the database server's clock
  runsLeft,  \* command invocations still allowed (bounds the model)
  run,       \* the running (or last finished) command invocation
  pre,       \* db as it was when the current invocation started
  hist,      \* the last HistLen finished invocations before the current
             \* one, oldest first
  tree,      \* [made, listing]: the directories scaffolded by `new`, with
             \* their names spelled out, and the last sorted listing
  repl,      \* the interactive SQL session of `connect`
  race       \* two apply processes running at the same time

vars == <<disk, env, db, tx, clock, runsLeft, run, pre, hist, tree, repl, race>>

\* ------------------------------------------------------------ pure helpers

\* process.env.DATABASE_URL ?? process.env.POSTGRES_URL
EnvUrl(e) ==
  IF e.DATABASE_URL # "undefined" THEN e.DATABASE_URL ELSE e.POSTGRES_URL

\* variant: only null and undefined count as false
FalsyNullish(s) == s \in {"undefined", "null"}

\* !envUrl, and likewise the test `if (script)`
Falsy(s) == s \in {"undefined", "", "null"}

Min(S) == CHOOSE x \in S : \A y \in S : x <= y

Max(S) == CHOOSE x \in S : \A y \in S : x >= y

RECURSIVE SortNamesDescending(_)
\* variant: the comparator's arguments swapped
SortNamesDescending(S) ==
  IF S = {} THEN <<>> ELSE <<Max(S)>> \o SortNamesDescending(S \ {Max(S)})

RECURSIVE SortNames(_)
\* entries.filter(isDirectory).map(name).sort(localeCompare)
SortNames(S) ==
  IF S = {} THEN <<>> ELSE <<Min(S)>> \o SortNames(S \ {Min(S)})

\* String.prototype.trim on a file's content
Trim(content) == IF content = "blank" THEN "" ELSE content

\* variant: a missing file reads as an empty script
ReadScriptNoThrow(content) == IF content = "absent" THEN "" ELSE Trim(content)

\* (await fs.readFile(path, "utf-8")).trim(); "ENOENT" when readFile throws
ReadScript(content) == IF content = "absent" THEN "ENOENT" ELSE Trim(content)

\* variant: the rows read from the ledger are dropped
AppliedSetEmpty(rows) == {}

\* new Set(appliedRows.map((r) => r.name))
AppliedSet(rows) == {r.name : r \in rows}

\* the server rejects the statement text
QueryFails(script) == script = "bad"

\* effect of a migration's up.sql / down.sql body on the schema
RunUpScript(schema, name, script) ==
  IF script = "ok" THEN schema \cup {name} ELSE schema

RunDownScript(schema, name, script) ==
  IF script = "ok" THEN schema \ {name} ELSE schema

LedgerNames(ledger) == {r.name : r \in ledger}

\* variant: the name column has no UNIQUE constraint
UniqueViolationNever(ledger, name) == FALSE

\* name TEXT NOT NULL UNIQUE: an insert of a name already present is rejected
UniqueViolation(ledger, name) == name \in LedgerNames(ledger)

\* variant: the table is overwritten by the new row
InsertRowReplacing(ledger, name, now) == {[name |-> name, run_on |-> now]}

\* variant: no row is written
InsertRowDropped(ledger, name, now) == ledger

\* INSERT INTO migrations (name) VALUES ($1); run_on DEFAULT NOW()
InsertRow(ledger, name, now) == ledger \cup {[name |-> name, run_on |-> now]}

\* variant: the WHERE clause is missing
DeleteRowAll(ledger, name) == {}

\* variant: the WHERE clause matches no row
DeleteRowNothing(ledger, name) == ledger

\* DELETE FROM migrations WHERE name = $1
DeleteRow(ledger, name) == {r \in ledger : r.name # name}

\* variant: ORDER BY run_on ASC
LastAppliedOldest(ledger) ==
  {r.name : r \in {q \in ledger : \A o \in ledger : o.run_on >= q.run_on}}

\* SELECT name FROM migrations ORDER BY run_on DESC LIMIT 1:
\* the names the query may return (no tie-break among equal run_on)
LastApplied(ledger) ==
  {r.name : r \in {q \in ledger : \A o \in ledger : o.run_on <= q.run_on}}

NoTx == [open |-> FALSE, table |-> FALSE, ledger |-> {}, schema |-> {}, now |-> 0]

\* variant: NOW() does not advance
BeginEpoch(d, now) ==
  [open |-> TRUE, table |-> d.table, ledger |-> d.ledger, schema |-> d.schema,
   now |-> 0]

\* BEGIN: the transaction works on a snapshot; NOW() is its start time
Begin(d, now) ==
  [open |-> TRUE, table |-> d.table, ledger |-> d.ledger, schema |-> d.schema,
   now |-> now]

\* COMMIT: the transaction's state becomes the committed state
Commit(d, t) ==
  IF t.open THEN [table |-> t.table, ledger |-> t.ledger, schema |-> t.schema]
  ELSE d

\* variant: the work of the transaction is kept
RollbackKeeps(d, t) == Commit(d, t)

\* ROLLBACK, or the connection dropping with the transaction open
Rollback(d, t) == d

Stmt(op, name) == <<op, name>>

IdleRun ==
  [cmd |-> "none", pc |-> "idle", exitCode |-> 0, connected |-> FALSE,
   released |-> FALSE, poolEnded |-> FALSE, stmts |-> <<>>, warned |-> {},
   errored |-> FALSE, applied |-> {}, allMigs |-> <<>>, idx |-> 0,
   lastName |-> 0, script |-> "null", failed |-> <<>>,
   opts |-> [exitCode |-> FALSE, quiet |-> FALSE], report |-> <<>>,
   summary |-> <<>>]

\* the last n elements of the sequence s
LastN(s, n) == IF Len(s) <= n THEN s ELSE SubSeq(s, Len(s) - n + 1, Len(s))

Finished == run.pc \in {"idle", "done", "exited"}

\* a new invocation starts: remember the last one, snapshot the database
StartRun(cmd) ==
  /\ Finished
  /\ runsLeft > 0
  /\ runsLeft' = runsLeft - 1
  /\ clock' = clock + 1
  /\ pre' = db
  /\ hist' = IF run.cmd = "none" THEN hist
             ELSE LastN(Append(hist, [run |-> run, pre |-> pre, post |-> db]),
                        HistLen)
  /\ UNCHANGED <<disk, env, tree, repl, race>>

\* process.exit(1): the process ends at once, no finally block runs and an
\* open transaction is aborted by the server when the connection drops
ProcessExit(r) == [r EXCEPT !.pc = "exited", !.exitCode = 1]

\* the statement st has been issued and the server rejects it
Throws(r, st) == [r EXCEPT !.stmts = Append(@, st), !.failed = st]

\* variant: the catch block does not end the process
CatchContinues(r) ==
  [r EXCEPT !.stmts = Append(@, Stmt("ROLLBACK", 0)), !.errored = TRUE]

\* the catch block: ROLLBACK, console.error, process.exit(1)
Catch(r) ==
  ProcessExit([r EXCEPT !.stmts = Append(@, Stmt("ROLLBACK", 0)), !.errored = TRUE])

\* variant: the connection is not given back
FinallyLeaks(r) == [r EXCEPT !.pc = "done", !.exitCode = 0]

\* the finally block after a normal completion
Finally(r) ==
  [r EXCEPT !.pc = "done", !.exitCode = 0, !.released = TRUE, !.poolEnded = TRUE]

\* -------------------------------------------------------------- up (apply)

UpStart ==
  /\ StartRun("up")
  /\ LET r0 == [IdleRun EXCEPT !.cmd = "up"] IN
     IF Falsy(EnvUrl(env))
     THEN /\ run' = ProcessExit(r0)
          /\ UNCHANGED <<db, tx>>
     ELSE LET t1 == Begin(db, clock')
              t2 == [t1 EXCEPT !.table = TRUE]
              r1 == [r0 EXCEPT !.connected = TRUE,
                               !.stmts = <<Stmt("BEGIN", 0), Stmt("CREATE", 0),
                                           Stmt("SELECT", 0)>>,
                               !.applied = AppliedSet(t2.ledger)]
          IN IF ~disk.root
             THEN /\ run' = ProcessExit(r1)
                  /\ tx' = NoTx
                  /\ db' = Rollback(db, t2)
             ELSE /\ run' = [r1 EXCEPT !.pc = "loop",
                                       !.allMigs = SortNames(disk.dirs),
                                       !.idx = 1]
                  /\ tx' = t2
                  /\ UNCHANGED db

UpStep ==
  /\ run.pc = "loop"
  /\ run.idx <= Len(run.allMigs)
  /\ LET name == run.allMigs[run.idx]
         script == ReadScript(disk.up[name])
         issued == [run EXCEPT !.stmts = Append(@, Stmt("SCRIPT", name))]
     IN CASE name \in run.applied ->
               /\ run' = [run EXCEPT !.idx = @ + 1]
               /\ UNCHANGED <<db, tx>>
          [] name \notin run.applied /\ script = "ENOENT" ->
               /\ run' = [run EXCEPT !.idx = @ + 1, !.warned = @ \cup {name}]
               /\ UNCHANGED <<db, tx>>
          [] name \notin run.applied /\ script # "ENOENT" /\ QueryFails(script) ->
               /\ run' = Catch(Throws(run, Stmt("SCRIPT", name)))
               /\ db' = Rollback(db, tx)
               /\ tx' = NoTx
          [] OTHER ->
               \E fault \in BOOLEAN :
                 IF fault \/ UniqueViolation(tx.ledger, name)
                 THEN /\ run' = Catch(Throws(issued, Stmt("INSERT", name)))
                      /\ db' = Rollback(db, tx)
                      /\ tx' = NoTx
                 ELSE /\ run' = [issued EXCEPT
                                   !.stmts = Append(@, Stmt("INSERT", name)),
                                   !.idx = @ + 1]
                      /\ tx' = [tx EXCEPT
                                  !.schema = RunUpScript(@, name, script),
                                  !.ledger = InsertRow(@, name, tx.now)]
                      /\ UNCHANGED db
  /\ UNCHANGED <<disk, env, clock, runsLeft, pre, hist, tree, repl, race>>

UpCommit ==
  /\ run.pc = "loop"
  /\ run.idx > Len(run.allMigs)
  /\ db' = Commit(db, tx)
  /\ tx' = NoTx
  /\ run' = Finally([run EXCEPT !.stmts = Append(@, Stmt("COMMIT", 0))])
  /\ UNCHANGED <<disk, env, clock, runsLeft, pre, hist, tree, repl, race>>

\* ----------------------------------------------------------- down (revert)

\* the content of migrations/<name>/down.sql
DownFile(name) == IF name \in disk.dirs THEN disk.down[name] ELSE "absent"

DownStart ==
  /\ StartRun("down")
  /\ UNCHANGED <<db, tx>>
  /\ LET r0 == [IdleRun EXCEPT !.cmd = "down"]
         r1 == [r0 EXCEPT !.connected = TRUE, !.stmts = <<Stmt("SELECT", 0)>>]
     IN CASE Falsy(EnvUrl(env)) -> run' = ProcessExit(r0)
          [] ~Falsy(EnvUrl(env)) /\ ~db.table ->
               run' = Catch(Throws([r0 EXCEPT !.connected = TRUE], Stmt("SELECT", 0)))
          [] ~Falsy(EnvUrl(env)) /\ db.table /\ LastApplied(db.ledger) = {} ->
               run' = Finally(r1)
          [] OTHER ->
               \E lastName \in LastApplied(db.ledger) :
                 LET read == ReadScript(DownFile(lastName)) IN
                 run' = [r1 EXCEPT
                           !.pc = "revert",
                           !.lastName = lastName,
                           !.script = IF read = "ENOENT" THEN "null" ELSE read,
                           !.warned = IF read = "ENOENT" THEN {lastName} ELSE {}]

DownRevert ==
  /\ run.pc = "revert"
  /\ LET name == run.lastName
         t1 == Begin(db, clock)
         r1 == [run EXCEPT !.stmts = Append(@, Stmt("BEGIN", 0))]
         r2 == IF Falsy(run.script) THEN r1
               ELSE [r1 EXCEPT !.stmts = Append(@, Stmt("SCRIPT", name))]
         t2 == IF Falsy(run.script) THEN t1
               ELSE [t1 EXCEPT !.schema = RunDownScript(@, name, run.script)]
     IN IF ~Falsy(run.script) /\ QueryFails(run.script)
        THEN /\ run' = Catch(Throws(r1, Stmt("SCRIPT", name)))
             /\ db' = Rollback(db, t1)
        ELSE \E fault \in BOOLEAN :
               IF fault
               THEN /\ run' = Catch(Throws(r2, Stmt("DELETE", name)))
                    /\ db' = Rollback(db, t2)
               ELSE /\ run' = Finally([r2 EXCEPT
                                         !.stmts = @ \o <<Stmt("DELETE", name),
                                                          Stmt("COMMIT", 0)>>])
                    /\ db' = Commit(db, [t2 EXCEPT !.ledger = DeleteRow(@, name)])
  /\ tx' = NoTx
  /\ UNCHANGED <<disk, env, clock, runsLeft, pre, hist, tree, repl, race>>

\* the revert-last of the bun-sql variant, run on the committed database d
\* with the target `name`: no transaction surrounds its statements, so each
\* takes effect as soon as it succeeds; deleteFails says whether the server
\* rejects the DELETE
BunDown(d, name, deleteFails) ==
  LET exists == DownFile(name) # "absent"
      script == Trim(DownFile(name))
      d1 == IF exists
            THEN [d EXCEPT !.schema = RunDownScript(@, name, script)]
            ELSE d
  IN IF exists /\ QueryFails(script) THEN d
     ELSE IF deleteFails THEN d1
     ELSE [d1 EXCEPT !.ledger = DeleteRow(@, name)]

\* ------------------------------------------------------------------ status

\* variant: every ledger name counts as applied
FilterAppliedLedger(allMigs, appliedMap) == SortNames(appliedMap)

\* allMigs.filter(name => appliedMap.has(name)) and its complement
FilterApplied(allMigs, appliedMap) ==
  LET In(n) == n \in appliedMap IN SelectSeq(allMigs, In)

\* variant: the negation is lost
FilterPendingNegated(allMigs, appliedMap) ==
  LET In(n) == n \in appliedMap IN SelectSeq(allMigs, In)

FilterPending(allMigs, appliedMap) ==
  LET Out(n) == n \notin appliedMap IN SelectSeq(allMigs, Out)

\* the printed lines of the full listing: "[X] name - applied at t" or "[ ] name"
StatusLines(allMigs, rows) ==
  [i \in DOMAIN allMigs |->
     IF allMigs[i] \in AppliedSet(rows)
     THEN <<"X", allMigs[i],
            (CHOOSE r \in rows : r.name = allMigs[i]).run_on>>
     ELSE <<" ", allMigs[i], 0>>]

\* the catch block of status: console.error and process.exit(1), no ROLLBACK
\* variant: the catch block of apply and revert, which issues ROLLBACK
StatusCatchRollback(r) == Catch(r)

StatusCatch(r) == ProcessExit([r EXCEPT !.errored = TRUE])

Status ==
  /\ StartRun("status")
  /\ UNCHANGED <<db, tx>>
  /\ \E exitCode \in BOOLEAN, quiet \in BOOLEAN :
       LET r0 == [IdleRun EXCEPT
                    !.cmd = "status",
                    !.opts = [exitCode |-> exitCode, quiet |-> quiet]]
           r1 == [r0 EXCEPT !.connected = TRUE]
           allMigs == SortNames(disk.dirs)
           appliedMap == AppliedSet(db.ledger)
           pending == FilterPending(allMigs, appliedMap)
           applied == FilterApplied(allMigs, appliedMap)
           r2 == [r1 EXCEPT
                    !.stmts = <<Stmt("SELECT", 0)>>,
                    !.allMigs = allMigs,
                    !.applied = appliedMap,
                    !.summary = IF quiet THEN <<Len(applied), Len(pending)>>
                                ELSE <<>>,
                    !.report = IF quiet THEN <<>>
                               ELSE StatusLines(allMigs, db.ledger)]
       IN CASE Falsy(EnvUrl(env)) -> run' = ProcessExit(r0)
            [] ~Falsy(EnvUrl(env)) /\ ~disk.root -> run' = ProcessExit(r0)
            [] ~Falsy(EnvUrl(env)) /\ disk.root /\ ~db.table ->
                 run' = StatusCatch(Throws(r1, Stmt("SELECT", 0)))
            [] OTHER ->
                 run' = IF exitCode /\ Len(pending) > 0
                        THEN ProcessExit(r2) ELSE Finally(r2)

\* ------------------------------------------------------------- environment

\* the operator deletes a migration directory between two invocations
RemoveMigration ==
  /\ Finished
  /\ \E n \in disk.dirs :
       disk' = [disk EXCEPT !.dirs = @ \ {n},
                            !.up[n] = "absent", !.down[n] = "absent"]
  /\ hist' = IF run.cmd = "none" THEN hist
             ELSE LastN(Append(hist, [run |-> run, pre |-> pre, post |-> db]),
                        HistLen)
  /\ run' = IdleRun
  /\ pre' = db
  /\ UNCHANGED <<env, db, tx, clock, runsLeft, tree, repl, race>>

\* --------------------------------------------------------------- new (create)

\* the characters of a directory name in collation order
Collation == <<"_", "0", "1", "2", "3", "4", "5", "6", "7", "8", "9", "a", "b">>

Rank(c) == CHOOSE i \in DOMAIN Collation : Collation[i] = c

DigitChar(d) == Collation[d + 2]

RECURSIVE PadNone(_, _)
\* variant: decimal digits without leading zeros
PadNone(n, w) ==
  IF n < 10 THEN <<DigitChar(n)>>
  ELSE Append(PadNone(n \div 10, w), DigitChar(n % 10))

RECURSIVE Pad(_, _)
\* the decimal digits of n, zero-padded to width w
Pad(n, w) ==
  IF w = 0 THEN <<>> ELSE Append(Pad(n \div 10, w - 1), DigitChar(n % 10))

\* Date.prototype.toISOString: YYYY-MM-DDTHH:mm:ss.sssZ, in UTC
ToISOString(t) ==
  Pad(t.year, 4) \o <<"-">> \o Pad(t.month, 2) \o <<"-">> \o Pad(t.day, 2)
    \o <<"T">> \o Pad(t.hour, 2) \o <<":">> \o Pad(t.minute, 2) \o <<":">>
    \o Pad(t.second, 2) \o <<".">> \o Pad(t.ms, 3) \o <<"Z">>

\* .replace(/[-:.TZ]/g, "")
StripSeparators(s) ==
  LET Keep(c) == c \notin {"-", ":", ".", "T", "Z"} IN SelectSeq(s, Keep)

\* `${timestamp}_${name}`
DirName(t, name) == StripSeparators(ToISOString(t)) \o <<"_">> \o name

\* the UTC fields of an instant, most significant first
Fields(t) == <<t.year, t.month, t.day, t.hour, t.minute, t.second, t.ms>>

\* the instant t1 is earlier than the instant t2
Before(t1, t2) ==
  \E i \in DOMAIN Fields(t1) :
    /\ Fields(t1)[i] < Fields(t2)[i]
    /\ \A j \in 1..(i - 1) : Fields(t1)[j] = Fields(t2)[j]

Instant(y, mo, d, h, mi, sec, ms) ==
  [year |-> y, month |-> mo, day |-> d, hour |-> h, minute |-> mi,
   second |-> sec, ms |-> ms]

\* the instants at which `new` is run: they straddle a change in the number
\* of digits of the month, the day, the hour, the millisecond and the year
Instants ==
  { Instant(999, 12, 31, 23, 59, 59, 999),
    Instant(2024, 9, 30, 23, 59, 59, 999),
    Instant(2024, 10, 1, 0, 0, 0, 0),
    Instant(2024, 10, 1, 0, 0, 0, 9),
    Instant(2024, 10, 1, 0, 0, 0, 10),
    Instant(2024, 10, 1, 9, 59, 59, 100),
    Instant(2024, 10, 1, 10, 0, 0, 0) }

\* the names given to `new`
Slugs == {<<"a">>, <<"b">>, <<"1", "0">>}

RECURSIVE LocaleCompare(_, _)
\* a.localeCompare(b): negative, zero or positive
LocaleCompare(a, b) ==
  IF a = <<>> THEN (IF b = <<>> THEN 0 ELSE 0 - 1)
  ELSE IF b = <<>> THEN 1
  ELSE IF Rank(Head(a)) < Rank(Head(b)) THEN 0 - 1
  ELSE IF Rank(Head(a)) > Rank(Head(b)) THEN 1
  ELSE LocaleCompare(Tail(a), Tail(b))

RECURSIVE SortDirNames(_)
\* entries.map(e => e.name).sort((a, b) => a.localeCompare(b))
SortDirNames(S) ==
  IF S = {} THEN <<>>
  ELSE LET m == CHOOSE x \in S : \A y \in S : LocaleCompare(x, y) <= 0
       IN <<m>> \o SortDirNames(S \ {m})

EmptyTree == [made |-> <<>>, listing |-> <<>>]

MadeNames == {tree.made[i].name : i \in DOMAIN tree.made}

\* rove new <name>: creates migrations/ if needed and in it a directory
\* named after the current instant; the wall clock has moved on since the
\* last one was made
New ==
  /\ Len(tree.made) < MaxNew
  /\ \E t \in Instants, name \in Slugs :
       /\ tree.made # <<>> => Before(tree.made[Len(tree.made)].at, t)
       /\ tree' = [tree EXCEPT
                     !.made = Append(@, [at |-> t, name |-> DirName(t, name)])]
  /\ disk' = [disk EXCEPT !.root = TRUE]
  /\ UNCHANGED <<env, db, tx, clock, runsLeft, run, pre, hist, repl, race>>

\* apply reads the directory and sorts the names it finds
List ==
  /\ tree.listing # SortDirNames(MadeNames)
  /\ tree' = [tree EXCEPT !.listing = SortDirNames(MadeNames)]
  /\ UNCHANGED <<disk, env, db, tx, clock, runsLeft, run, pre, hist, repl, race>>

\* ------------------------------------------------------------ connect (REPL)

\* the input lines the line handler tells apart: an exit command, a clear
\* command, a meta-command, SQL text without and with a final semicolon
Lines == {"exit", "clear", "meta", "text", "query"}

\* before connectDb has run
ReplOff ==
  [rl |-> "none",        \* the readline interface: none, open, closed
   proc |-> "running",   \* the process: running, exited, crashed
   buffer |-> "",        \* the query buffer: empty or holding text
   ends |-> 0,           \* calls of pool.end() so far
   waiting |-> 0,        \* exit-command handlers suspended in await pool.end()
   queries |-> 0,        \* calls of pool.query() so far
   log |-> <<>>]         \* the lines handled so far

\* pool.end() is called
PoolEnd(r) == [r EXCEPT !.ends = @ + 1]

\* the outcomes of a call of pool.end(): the first call resolves; a later
\* call resolves or rejects, depending on the pool implementation
EndRejects(r) == IF r.ends = 0 THEN {FALSE} ELSE BOOLEAN

\* rl.on("close"): Goodbye!, await pool.end(), process.exit(0); a rejected
\* await leaves the handler by an unhandled rejection
CloseHandler(r, rejects) ==
  [PoolEnd(r) EXCEPT !.rl = "closed",
                     !.proc = IF rejects THEN "crashed" ELSE "exited"]

\* connectDb up to rl.prompt()
ReplStart ==
  /\ repl.rl = "none" /\ repl.proc = "running"
  /\ repl' = IF Falsy(EnvUrl(env)) THEN [repl EXCEPT !.proc = "exited"]
             ELSE [repl EXCEPT !.rl = "open"]
  /\ UNCHANGED <<disk, env, db, tx, clock, runsLeft, run, pre, hist, tree, race>>

\* rl.on("line"), up to its first await or its return
ReplLine ==
  /\ repl.rl = "open" /\ repl.proc = "running"
  /\ Len(repl.log) < MaxLines
  /\ \E line \in Lines :
       LET r == [repl EXCEPT !.log = Append(@, line)] IN
       CASE line = "exit" ->
              \E rejects \in EndRejects(repl) :
                repl' = IF rejects THEN [PoolEnd(r) EXCEPT !.proc = "crashed"]
                        ELSE [PoolEnd(r) EXCEPT !.waiting = @ + 1]
         [] line = "clear" -> repl' = [r EXCEPT !.buffer = ""]
         [] line = "meta" -> repl' = r
         [] line = "text" -> repl' = [r EXCEPT !.buffer = "text"]
         [] line = "query" ->
              repl' = [r EXCEPT !.buffer = "", !.queries = @ + 1]
  /\ UNCHANGED <<disk, env, db, tx, clock, runsLeft, run, pre, hist, tree, race>>

\* an exit-command handler resumes after await pool.end(): rl.close(),
\* which runs the close handler unless the interface is closed already
ReplResume ==
  /\ repl.waiting > 0 /\ repl.proc = "running"
  /\ LET r == [repl EXCEPT !.waiting = @ - 1] IN
     IF repl.rl = "open"
     THEN \E rejects \in EndRejects(r) : repl' = CloseHandler(r, rejects)
     ELSE repl' = r
  /\ UNCHANGED <<disk, env, db, tx, clock, runsLeft, run, pre, hist, tree, race>>

\* the input ends (Ctrl-D): readline closes and the close handler runs
ReplEof ==
  /\ repl.rl = "open" /\ repl.proc = "running"
  /\ \E rejects \in EndRejects(repl) : repl' = CloseHandler(repl, rejects)
  /\ UNCHANGED <<disk, env, db, tx, clock, runsLeft, run, pre, hist, tree, race>>

\* ------------------------------------------------- two concurrent applies

Procs == {1, 2}

Other(p) == 3 - p

\* a process that has not started; once started it holds its transaction:
\* the rows it inserted, the names whose up.sql it ran, whether it created
\* the ledger table
IdleProc ==
  [pc |-> "idle", now |-> 0, created |-> FALSE, rows |-> {}, ran |-> {},
   applied |-> {}, allMigs |-> <<>>, idx |-> 0, failed |-> <<>>]

\* the committed database counts how often each migration's effects were
\* committed; madeAt is the time the ledger table's creation was committed
RaceOff ==
  [db |-> [table |-> FALSE, madeAt |-> 0, ledger |-> {},
           effects |-> [n \in Names |-> 0]],
   clock |-> 0,
   p |-> [i \in Procs |-> IdleProc]]

InTx(q) == q.pc \in {"begun", "created", "loop", "insert"}

\* the catch block of a process: ROLLBACK discards its transaction
RaceFail(q, st) ==
  [q EXCEPT !.pc = "exited", !.failed = st, !.rows = {}, !.ran = {},
            !.created = FALSE]

RaceUnchanged ==
  UNCHANGED <<disk, env, db, tx, clock, runsLeft, run, pre, hist, tree, repl>>

\* BEGIN
RaceBegin(p) ==
  /\ race.p[p].pc = "idle"
  /\ race' = [race EXCEPT !.clock = @ + 1,
                          !.p[p].pc = "begun", !.p[p].now = race.clock + 1]
  /\ RaceUnchanged

\* CREATE TABLE IF NOT EXISTS migrations: waits while the other process
\* holds an uncommitted creation; when the table was committed by the other
\* process after this transaction began, the statement is either a no-op or
\* rejected
RaceCreate(p) ==
  /\ race.p[p].pc = "begun"
  /\ ~(InTx(race.p[Other(p)]) /\ race.p[Other(p)].created)
  /\ \E rejected \in IF race.db.table /\ race.db.madeAt > race.p[p].now
                     THEN BOOLEAN ELSE {FALSE} :
       race' = IF rejected
               THEN [race EXCEPT !.p[p] = RaceFail(@, Stmt("CREATE", 0))]
               ELSE [race EXCEPT !.p[p].pc = "created",
                                 !.p[p].created = ~race.db.table]
  /\ RaceUnchanged

\* SELECT name FROM migrations, readdir and sort
RaceSelect(p) ==
  /\ race.p[p].pc = "created"
  /\ race' = [race EXCEPT
                !.p[p].pc = "loop",
                !.p[p].applied = AppliedSet(race.db.ledger \cup race.p[p].rows),
                !.p[p].allMigs = SortNames(disk.dirs),
                !.p[p].idx = 1]
  /\ RaceUnchanged

\* the loop body up to client.query(script)
RaceScript(p) ==
  LET q == race.p[p] IN
  /\ q.pc = "loop" /\ q.idx <= Len(q.allMigs)
  /\ LET name == q.allMigs[q.idx]
         script == ReadScript(disk.up[name])
     IN race' =
          IF name \in q.applied \/ script = "ENOENT"
          THEN [race EXCEPT !.p[p].idx = @ + 1]
          ELSE IF QueryFails(script)
          THEN [race EXCEPT !.p[p] = RaceFail(@, Stmt("SCRIPT", name))]
          ELSE [race EXCEPT !.p[p].pc = "insert",
                            !.p[p].ran = RunUpScript(@, name, script)]
  /\ RaceUnchanged

\* INSERT INTO migrations: waits while the other process holds an
\* uncommitted row of that name; rejected when a row of that name is visible
RaceInsert(p) ==
  LET q == race.p[p]
      o == race.p[Other(p)]
      name == q.allMigs[q.idx]
  IN
  /\ q.pc = "insert"
  /\ ~(InTx(o) /\ UniqueViolation(o.rows, name))
  /\ race' =
       IF UniqueViolation(race.db.ledger \cup q.rows, name)
       THEN [race EXCEPT !.p[p] = RaceFail(@, Stmt("INSERT", name))]
       ELSE [race EXCEPT !.p[p].pc = "loop", !.p[p].idx = @ + 1,
                         !.p[p].rows = InsertRow(@, name, q.now)]
  /\ RaceUnchanged

\* COMMIT
RaceCommit(p) ==
  LET q == race.p[p] IN
  /\ q.pc = "loop" /\ q.idx > Len(q.allMigs)
  /\ race' = [race EXCEPT
                !.clock = @ + 1,
                !.p[p].pc = "done",
                !.db.table = TRUE,
                !.db.madeAt = IF q.created THEN race.clock + 1 ELSE @,
                !.db.ledger = @ \cup q.rows,
                !.db.effects = [n \in Names |->
                                  IF n \in q.ran THEN @[n] + 1 ELSE @[n]]]
  /\ RaceUnchanged

\* ------------------------------------------------------------ specification

FreshDb == [table |-> FALSE, ledger |-> {}, schema |-> {}]

InitDisk ==
  \/ disk = [root |-> FALSE, dirs |-> {}, up |-> [n \in Names |-> "absent"],
             down |-> [n \in Names |-> "absent"]]
  \/ \E D \in SUBSET Names, u \in [Names -> Contents], d \in [Names -> Contents] :
       /\ \A n \in Names \ D : u[n] = "absent" /\ d[n] = "absent"
       /\ disk = [root |-> TRUE, dirs |-> D, up |-> u, down |-> d]

InitRest ==
  /\ db = FreshDb
  /\ tx = NoTx
  /\ clock = 0
  /\ run = IdleRun
  /\ pre = FreshDb
  /\ hist = <<>>
  /\ tree = EmptyTree
  /\ repl = ReplOff
  /\ race = RaceOff

Init ==
  /\ InitDisk
  /\ env = [DATABASE_URL |-> "url", POSTGRES_URL |-> "undefined"]
  /\ runsLeft = MaxRuns
  /\ InitRest

\* a longer session over migrations whose up.sql executes
InitDeep ==
  /\ \E D \in SUBSET Names, d \in [Names -> Contents] :
       /\ \A n \in Names \ D : d[n] = "absent"
       /\ disk = [root |-> TRUE, dirs |-> D,
                  up |-> [n \in Names |-> IF n \in D THEN "ok" ELSE "absent"],
                  down |-> d]
  /\ env = [DATABASE_URL |-> "url", POSTGRES_URL |-> "undefined"]
  /\ runsLeft = MaxDeepRuns
  /\ InitRest

Next == UpStart \/ UpStep \/ UpCommit \/ DownStart \/ DownRevert

\* all three commands, any environment, directories that may be deleted
InitOps ==
  /\ \/ disk = [root |-> FALSE, dirs |-> {}, up |-> [n \in Names |-> "absent"],
                down |-> [n \in Names |-> "absent"]]
     \/ \E D \in SUBSET Names :
          disk = [root |-> TRUE, dirs |-> D,
                  up |-> [n \in Names |-> IF n \in D THEN "ok" ELSE "absent"],
                  down |-> [n \in Names |-> IF n \in D THEN "ok" ELSE "absent"]]
  /\ env \in [DATABASE_URL : EnvValues, POSTGRES_URL : EnvValues]
  /\ runsLeft = MaxOpsRuns
  /\ InitRest

NextOps == Next \/ Status \/ RemoveMigration

Spec == Init /\ [][Next]_vars

SpecOps == InitOps /\ [][NextOps]_vars

SpecDeep == InitDeep /\ [][Next]_vars

\* scaffolding only: no command is run against the database
InitNew ==
  /\ disk = [root |-> FALSE, dirs |-> {},
             up |-> [n \in Names |-> "absent"],
             down |-> [n \in Names |-> "absent"]]
  /\ env = [DATABASE_URL |-> "url", POSTGRES_URL |-> "undefined"]
  /\ runsLeft = 0
  /\ InitRest

NextNew == New \/ List

SpecNew == InitNew /\ [][NextNew]_vars

\* two apply processes started against a fresh database, or against one
\* where earlier apply runs have committed some of the on-disk migrations
InitRace ==
  /\ \E D \in SUBSET Names, u \in [Names -> {"absent", "ok", "bad"}],
        A \in SUBSET Names, made \in BOOLEAN :
       /\ \A n \in Names \ D : u[n] = "absent"
       /\ \A n \in A : n \in D /\ u[n] = "ok"
       /\ ~made => A = {}
       /\ disk = [root |-> TRUE, dirs |-> D, up |-> u,
                  down |-> [n \in Names |-> "absent"]]
       /\ race = [RaceOff EXCEPT
                    !.db.table = made,
                    !.db.ledger = {[name |-> n, run_on |-> 0] : n \in A},
                    !.db.effects = [n \in Names |-> IF n \in A THEN 1 ELSE 0]]
  /\ env = [DATABASE_URL |-> "url", POSTGRES_URL |-> "undefined"]
  /\ runsLeft = 0
  /\ db = FreshDb /\ tx = NoTx /\ clock = 0 /\ run = IdleRun
  /\ pre = FreshDb /\ hist = <<>>
  /\ tree = EmptyTree /\ repl = ReplOff

NextRace ==
  \E p \in Procs :
    \/ RaceBegin(p) \/ RaceCreate(p) \/ RaceSelect(p)
    \/ RaceScript(p) \/ RaceInsert(p) \/ RaceCommit(p)

SpecRace == InitRace /\ [][NextRace]_vars

\* the interactive session only
InitRepl ==
  /\ disk = [root |-> FALSE, dirs |-> {},
             up |-> [n \in Names |-> "absent"],
             down |-> [n \in Names |-> "absent"]]
  /\ env \in [DATABASE_URL : EnvValues, POSTGRES_URL : EnvValues]
  /\ runsLeft = 0
  /\ InitRest

NextRepl == ReplStart \/ ReplLine \/ ReplResume \/ ReplEof

SpecRepl == InitRepl /\ [][NextRepl]_vars

\* ------------------------------------------------------------- properties

\* the names of the statements of kind op in the log s, in order of issue
NamesOf(s, op) ==
  LET Is(st) == st[1] = op
      sel == SelectSeq(s, Is)
  IN [i \in 1..Len(sel) |-> sel[i][2]]

Has(s, st) == \E i \in DOMAIN s : s[i] = st

Last(s) == s[Len(s)]

Applied0 == LedgerNames(pre.ledger)

\* the pending names whose directory holds an up.sql
Runnable == {n \in disk.dirs \ Applied0 : disk.up[n] # "absent"}

\* C1: an apply run executes up.sql only for names on disk and not in the
\* ledger, in ascending order of name, and inserts each name's ledger entry
\* after its up.sql and before the next up.sql; a run that completes has
\* executed exactly the pending names that have an up.sql.
C1_ApplyInOrder ==
  run.cmd = "up" =>
    LET s == run.stmts IN
    /\ \A i \in DOMAIN s :
         s[i][1] = "SCRIPT" => s[i][2] \in disk.dirs \ Applied0
    /\ \A i, j \in DOMAIN s :
         (i < j /\ s[i][1] = "SCRIPT" /\ s[j][1] = "SCRIPT") =>
           /\ s[i][2] < s[j][2]
           /\ \E k \in (i + 1)..(j - 1) : s[k] = Stmt("INSERT", s[i][2])
    /\ \A k \in DOMAIN s :
         s[k][1] = "INSERT" => k > 1 /\ s[k - 1] = Stmt("SCRIPT", s[k][2])
    /\ run.pc = "done" =>
         /\ NamesOf(s, "SCRIPT") = SortNames(Runnable)
         /\ NamesOf(s, "INSERT") = SortNames(Runnable)
         /\ LedgerNames(db.ledger) = Applied0 \cup Runnable

\* C1 witness: disk [1,2,3], ledger [1]: 2 runs, then 3, ledger [1,2,3]
C1_Witness ==
  /\ run.cmd = "up" /\ run.pc = "done"
  /\ disk.dirs = {1, 2, 3} /\ Applied0 = {1}
  /\ NamesOf(run.stmts, "SCRIPT") = <<2, 3>>
  /\ LedgerNames(db.ledger) = {1, 2, 3}

\* C2: when the up.sql or the ledger insert of a pending migration fails,
\* the batch is rolled back: the committed database equals the one before
\* the run, and the command exits with code 1.
C2_ApplyAtomic ==
  (run.cmd = "up" /\ run.failed # <<>>) =>
    /\ run.pc = "exited" /\ run.exitCode = 1
    /\ Last(run.stmts) = Stmt("ROLLBACK", 0)
    /\ db = pre
    /\ ~tx.open

\* C2 witness: the second migration of a batch fails after the first one's
\* ledger row was inserted
C2_Witness ==
  /\ run.cmd = "up" /\ run.failed # <<>> /\ run.failed[1] = "SCRIPT"
  /\ NamesOf(run.stmts, "INSERT") # <<>>
  /\ ~pre.table /\ db = pre

\* C3: when down.sql or the ledger delete fails, the revert is rolled back:
\* the target's ledger entry is still present, the schema is as before the
\* run, and the command exits with code 1.
C3_RevertAtomic ==
  (run.cmd = "down" /\ run.failed # <<>> /\ run.failed[1] \in {"SCRIPT", "DELETE"}) =>
    /\ run.pc = "exited" /\ run.exitCode = 1
    /\ Last(run.stmts) = Stmt("ROLLBACK", 0)
    /\ db = pre
    /\ run.lastName \in LedgerNames(db.ledger)
    /\ ~tx.open

\* C3 witness: down.sql has run and changed the schema, then the delete fails
C3_Witness ==
  /\ run.cmd = "down" /\ run.failed = Stmt("DELETE", run.lastName)
  /\ Has(run.stmts, Stmt("SCRIPT", run.lastName))
  /\ run.script = "ok" /\ run.lastName \in pre.schema
  /\ db = pre

\* the finished invocation k places before the current one (0: the last)
Past(k) == hist[Len(hist) - k]

\* names whose ledger row the invocation r inserted
Inserted(r) == {r.stmts[i][2] : i \in {j \in DOMAIN r.stmts : r.stmts[j][1] = "INSERT"}}

Newest(ledger) == {r \in ledger : \A o \in ledger : o.run_on <= r.run_on}

\* C4: with a non-empty ledger, revert targets an entry whose run_on is
\* maximal, runs its down.sql and deletes that entry; from a ledger of two
\* entries with different run_on, three reverts in a row remove the later
\* one, then the earlier one, and then do nothing.
C4_RevertLatest ==
  /\ (run.cmd = "down" /\ run.connected /\ pre.table /\ pre.ledger # {}) =>
       /\ run.lastName \in {r.name : r \in Newest(pre.ledger)}
       /\ run.pc = "done" =>
            /\ db.ledger = {r \in pre.ledger : r.name # run.lastName}
            /\ DownFile(run.lastName) = "ok" =>
                 /\ Has(run.stmts, Stmt("SCRIPT", run.lastName))
                 /\ db.schema = pre.schema \ {run.lastName}
  /\ ( /\ Len(hist) >= 2
       /\ \A k \in {0, 1} : Past(k).run.cmd = "down" /\ Past(k).run.pc = "done"
       /\ run.cmd = "down" /\ run.connected
       /\ Cardinality(Past(1).pre.ledger) = 2
       /\ Cardinality(Newest(Past(1).pre.ledger)) = 1 ) =>
       LET b == CHOOSE r \in Past(1).pre.ledger : r \in Newest(Past(1).pre.ledger)
           a == CHOOSE r \in Past(1).pre.ledger : r # b
       IN /\ Past(1).run.lastName = b.name
          /\ Past(1).post.ledger = {a}
          /\ Past(0).run.lastName = a.name
          /\ Past(0).post.ledger = {}
          /\ run.pc = "done" /\ run.exitCode = 0
          /\ run.lastName = 0
          /\ run.stmts = <<Stmt("SELECT", 0)>>
          /\ db = pre

\* C4 witness: the third revert after two reverts that ran the down.sql of
\* the later and then of the earlier entry
C4_Witness ==
  /\ Len(hist) >= 2
  /\ \A k \in {0, 1} :
       /\ Past(k).run.cmd = "down" /\ Past(k).run.pc = "done"
       /\ Has(Past(k).run.stmts, Stmt("SCRIPT", Past(k).run.lastName))
  /\ Cardinality(Past(1).pre.ledger) = 2
  /\ Cardinality(Newest(Past(1).pre.ledger)) = 1
  /\ run.cmd = "down" /\ run.pc = "done" /\ db.ledger = {}

\* C5: a revert that reads an empty ledger opens no transaction and issues
\* no further statement, leaves the database unchanged, releases the
\* connection and finishes with exit code 0.
C5_RevertEmptyNoop ==
  (run.cmd = "down" /\ run.connected /\ pre.table /\ pre.ledger = {}) =>
    /\ run.stmts = <<Stmt("SELECT", 0)>>
    /\ run.pc = "done" /\ run.exitCode = 0
    /\ run.released /\ run.poolEnded
    /\ ~tx.open
    /\ db = pre

C5_Witness ==
  /\ run.cmd = "down" /\ run.connected /\ pre.table /\ pre.ledger = {}
  /\ run.pc = "done" /\ run.stmts = <<Stmt("SELECT", 0)>>

\* C6 as stated: with A a subset of D, a successful apply leaves the ledger
\* names equal to D.
C6_Original ==
  (run.cmd = "up" /\ run.pc = "done" /\ Applied0 \subseteq disk.dirs) =>
    LedgerNames(db.ledger) = disk.dirs

\* C6 amended: with A a subset of D, the names apply treats as pending are
\* D \ A, and a successful apply leaves the ledger names equal to A plus the
\* pending names whose directory holds an up.sql (D when all of them do).
C6_Amended ==
  (run.cmd = "up" /\ run.pc = "done" /\ Applied0 \subseteq disk.dirs) =>
    /\ Inserted(run) \cup run.warned = disk.dirs \ Applied0
    /\ Inserted(run) \cap run.warned = {}
    /\ LedgerNames(db.ledger) = Applied0 \cup Runnable
    /\ (\A n \in disk.dirs \ Applied0 : disk.up[n] # "absent") =>
         LedgerNames(db.ledger) = disk.dirs

C6_Witness ==
  /\ run.cmd = "up" /\ run.pc = "done"
  /\ Applied0 # {} /\ Applied0 \subseteq disk.dirs
  /\ Cardinality(disk.dirs \ Applied0) = 2
  /\ \E n \in disk.dirs \ Applied0 : disk.up[n] = "absent"
  /\ \E n \in disk.dirs \ Applied0 : disk.up[n] # "absent"
  /\ LedgerNames(db.ledger) = Applied0 \cup Runnable

\* C7: an apply run right after a successful apply run executes no up.sql,
\* inserts no ledger row and leaves the database as the first run left it.
C7_ApplyIdempotent ==
  ( /\ run.cmd = "up" /\ Len(hist) >= 1
    /\ Past(0).run.cmd = "up" /\ Past(0).run.pc = "done" ) =>
    /\ NamesOf(run.stmts, "SCRIPT") = <<>>
    /\ NamesOf(run.stmts, "INSERT") = <<>>
    /\ run.pc # "exited"
    /\ run.pc = "done" => db = Past(0).post

C7_Witness ==
  /\ run.cmd = "up" /\ run.pc = "done" /\ Len(hist) >= 1
  /\ Past(0).run.cmd = "up" /\ Past(0).run.pc = "done"
  /\ Cardinality(Inserted(Past(0).run)) >= 2
  /\ Past(0).run.warned # {}

\* C8: an apply run that applies the single migration M, followed by a
\* revert, leaves the ledger as it was before the apply: M's entry is
\* removed and every other entry is still there.
C8_RoundTrip ==
  ( /\ run.cmd = "down" /\ run.pc = "done" /\ Len(hist) >= 1
    /\ Past(0).run.cmd = "up" /\ Past(0).run.pc = "done"
    /\ Cardinality(Inserted(Past(0).run)) = 1 ) =>
    /\ Inserted(Past(0).run) = {run.lastName}
    /\ run.lastName \notin LedgerNames(db.ledger)
    /\ db.ledger = Past(0).pre.ledger

C8_Witness ==
  /\ run.cmd = "down" /\ run.pc = "done" /\ Len(hist) >= 1
  /\ Past(0).run.cmd = "up" /\ Past(0).run.pc = "done"
  /\ Cardinality(Inserted(Past(0).run)) = 1
  /\ Cardinality(Past(0).pre.ledger) = 2
  /\ db.ledger = Past(0).pre.ledger

\* C9: a pending directory without up.sql is skipped with a warning: no
\* statement is issued and no ledger row inserted for it, the other pending
\* migrations are applied in order, and the run commits with exit code 0;
\* an apply run exits non-zero only when a statement fails.
C9_MissingUpSkipped ==
  run.cmd = "up" =>
    /\ \A n \in disk.dirs \ Applied0 :
         disk.up[n] = "absent" =>
           /\ ~Has(run.stmts, Stmt("SCRIPT", n))
           /\ ~Has(run.stmts, Stmt("INSERT", n))
           /\ n \notin LedgerNames(tx.ledger) \cup LedgerNames(db.ledger)
           /\ (\E i \in 1..(run.idx - 1) : run.allMigs[i] = n) => n \in run.warned
    /\ run.pc = "done" =>
         /\ run.exitCode = 0
         /\ Last(run.stmts) = Stmt("COMMIT", 0)
         /\ NamesOf(run.stmts, "INSERT") = SortNames(Runnable)
         /\ run.warned = (disk.dirs \ Applied0) \ Runnable
    /\ (run.pc = "exited" /\ run.connected /\ disk.root) => run.failed # <<>>

C9_Witness ==
  /\ run.cmd = "up" /\ run.pc = "done" /\ run.exitCode = 0
  /\ \E n \in run.warned : \E m \in Inserted(run) : n < m
  /\ \E n \in run.warned : \E m \in Inserted(run) : m < n
  /\ \A n \in run.warned : n \notin LedgerNames(db.ledger)

\* C10: when the target's down.sql is missing or blank, revert issues no
\* migration SQL, deletes the ledger entry inside the transaction and
\* commits (SELECT, BEGIN, DELETE, COMMIT); a missing file is warned about.
C10_RevertWithoutScript ==
  (run.cmd = "down" /\ run.lastName # 0
     /\ DownFile(run.lastName) \in {"absent", "blank"}) =>
    /\ ~Has(run.stmts, Stmt("SCRIPT", run.lastName))
    /\ DownFile(run.lastName) = "absent" <=> run.lastName \in run.warned
    /\ run.pc = "done" =>
         /\ run.stmts = <<Stmt("SELECT", 0), Stmt("BEGIN", 0),
                          Stmt("DELETE", run.lastName), Stmt("COMMIT", 0)>>
         /\ run.exitCode = 0
         /\ db.ledger = {r \in pre.ledger : r.name # run.lastName}
         /\ db.schema = pre.schema
    /\ run.pc = "exited" => run.failed = Stmt("DELETE", run.lastName)

C10_Witness ==
  /\ run.cmd = "down" /\ run.pc = "done" /\ run.lastName # 0
  /\ DownFile(run.lastName) = "absent" /\ run.lastName \in run.warned
  /\ run.lastName \in pre.schema
  /\ run.lastName \notin LedgerNames(db.ledger)

\* the blank case of C10
C10_BlankCase ==
  /\ run.cmd = "down" /\ run.pc = "done" /\ run.lastName # 0
  /\ DownFile(run.lastName) = "blank"

\* the apply loop has gone past the name n
Visited(n) == \E i \in 1..(run.idx - 1) : run.allMigs[i] = n

\* C11 as stated: a pending migration whose up.sql is blank after trimming
\* gets a warning and no SQL statement is issued for its script body.
C11_BlankUpSkipped ==
  run.cmd = "up" =>
    \A n \in disk.dirs \ Applied0 :
      (disk.up[n] = "blank" /\ Visited(n)) =>
        /\ n \in run.warned
        /\ ~Has(run.stmts, Stmt("SCRIPT", n))

\* the connection string is missing, or migrations/ does not exist
ConfigError == Falsy(EnvUrl(env)) \/ ~disk.root

\* C12 as stated: on a configuration error apply and status exit with code
\* 1 without having issued BEGIN or any other statement.
C12_ConfigBeforeDb ==
  (run.cmd \in {"up", "status"} /\ ConfigError) =>
    /\ run.pc = "exited" /\ run.exitCode = 1
    /\ run.stmts = <<>>

\* C13 as stated: every finished run that acquired a connection has
\* released the client and ended the pool.
C13_AlwaysReleased ==
  (run.cmd \in {"up", "down", "status"} /\ Finished /\ run.connected) =>
    run.released /\ run.poolEnded

\* a status run that got as far as printing
Printed == run.cmd = "status" /\ run.connected /\ run.failed = <<>>

OnDiskApplied == disk.dirs \cap LedgerNames(db.ledger)
OnDiskPending == disk.dirs \ LedgerNames(db.ledger)

\* C14: status lists exactly the on-disk names, once each and sorted, each
\* flagged applied iff it is in the ledger; ledger names not on disk appear
\* nowhere; the summary is Applied = |D \cap A|, Pending = |D \ A|.
C14_StatusReport ==
  Printed =>
    /\ ~run.opts.quiet =>
         /\ run.summary = <<>>
         /\ [i \in DOMAIN run.report |-> run.report[i][2]] = SortNames(disk.dirs)
         /\ \A i \in DOMAIN run.report :
              /\ run.report[i][1] = "X" <=>
                   run.report[i][2] \in LedgerNames(db.ledger)
              /\ run.report[i][1] = "X" =>
                   [name |-> run.report[i][2], run_on |-> run.report[i][3]]
                     \in db.ledger
    /\ run.opts.quiet =>
         /\ run.report = <<>>
         /\ run.summary = <<Cardinality(OnDiskApplied), Cardinality(OnDiskPending)>>
         /\ run.summary[1] + run.summary[2] = Cardinality(disk.dirs)

\* C14 witness: a listing with an applied and a pending name on disk while
\* the ledger also holds a name whose directory is gone
C14_Witness ==
  /\ Printed /\ ~run.opts.quiet
  /\ LedgerNames(db.ledger) \ disk.dirs # {}
  /\ OnDiskApplied # {} /\ OnDiskPending # {}
  /\ Len(run.report) = Cardinality(disk.dirs)

\* the summary case of C14
C14_QuietCase ==
  /\ Printed /\ run.opts.quiet
  /\ LedgerNames(db.ledger) \ disk.dirs # {}
  /\ run.summary = <<1, 1>>

\* C15: status exits with code 1 exactly on a fatal error or when the
\* exit-code flag is set and an on-disk migration is pending.
C15_StatusExitCode ==
  run.cmd = "status" =>
    LET fatal == ConfigError \/ ~pre.table
        wanted == fatal \/ (run.opts.exitCode /\ OnDiskPending # {})
    IN /\ wanted => run.pc = "exited" /\ run.exitCode = 1
       /\ ~wanted => run.pc = "done" /\ run.exitCode = 0

C15_Witness ==
  /\ run.cmd = "status" /\ Printed /\ run.opts.exitCode
  /\ OnDiskPending # {} /\ OnDiskApplied # {}
  /\ run.pc = "exited" /\ run.exitCode = 1

\* the other side of C15: flag set, nothing pending, no exit
C15_NoPendingCase ==
  /\ run.cmd = "status" /\ Printed /\ run.opts.exitCode
  /\ OnDiskPending = {} /\ OnDiskApplied # {}
  /\ run.pc = "done"

\* C16 as stated: apply, revert and status (given a migrations directory)
\* connect whenever DATABASE_URL or POSTGRES_URL holds a non-empty
\* connection string, and exit with code 1 without connecting only when
\* neither does.
C16_EitherVariable ==
  (run.cmd \in {"up", "down"} \/ (run.cmd = "status" /\ disk.root)) =>
    /\ run.connected <=> (env.DATABASE_URL = "url" \/ env.POSTGRES_URL = "url")
    /\ ~run.connected => run.pc = "exited" /\ run.exitCode = 1

\* C17: a successful revert makes its target pending again, and the apply
\* run that follows executes the target's up.sql again and re-inserts its
\* ledger entry.
C17_Cycle ==
  /\ (run.cmd = "down" /\ run.pc = "done" /\ run.lastName # 0) =>
       run.lastName \notin LedgerNames(db.ledger)
  /\ ( /\ run.cmd = "up" /\ run.pc = "done" /\ Len(hist) >= 1
       /\ Past(0).run.cmd = "down" /\ Past(0).run.pc = "done"
       /\ Past(0).run.lastName \in disk.dirs
       /\ disk.up[Past(0).run.lastName] # "absent" ) =>
       LET M == Past(0).run.lastName IN
       /\ M \notin Applied0
       /\ Has(run.stmts, Stmt("SCRIPT", M))
       /\ Has(run.stmts, Stmt("INSERT", M))
       /\ [name |-> M, run_on |-> clock] \in db.ledger
       /\ M \in db.schema

\* C17 witness: applied, reverted, applied again
C17_Witness ==
  /\ run.cmd = "up" /\ run.pc = "done" /\ Len(hist) >= 2
  /\ Past(0).run.cmd = "down" /\ Past(0).run.pc = "done"
  /\ Past(1).run.cmd = "up" /\ Past(1).run.pc = "done"
  /\ Past(0).run.lastName \in Inserted(Past(1).run)
  /\ Past(0).run.lastName \in Inserted(run)
  /\ clock >= 5

\* C18 as stated: an apply run with nothing pending executes no SQL
\* statement other than the ledger-table creation.
C18_Original ==
  (run.cmd = "up" /\ run.pc = "done" /\ disk.dirs \subseteq Applied0) =>
    /\ db.ledger = pre.ledger
    /\ \A i \in DOMAIN run.stmts : run.stmts[i][1] = "CREATE"

\* C18 amended: an apply run with nothing pending leaves the ledger and the
\* schema unchanged and issues exactly BEGIN, the ledger-table creation, the
\* ledger SELECT and COMMIT: no up.sql and no ledger insert.
C18_Amended ==
  (run.cmd = "up" /\ run.connected /\ disk.root /\ disk.dirs \subseteq Applied0) =>
    /\ NamesOf(run.stmts, "SCRIPT") = <<>>
    /\ NamesOf(run.stmts, "INSERT") = <<>>
    /\ run.pc # "exited"
    /\ run.pc = "done" =>
         /\ run.stmts = <<Stmt("BEGIN", 0), Stmt("CREATE", 0),
                          Stmt("SELECT", 0), Stmt("COMMIT", 0)>>
         /\ db.ledger = pre.ledger
         /\ db.schema = pre.schema
         /\ db.table

C18_Witness ==
  /\ run.cmd = "up" /\ run.pc = "done"
  /\ disk.dirs # {} /\ disk.dirs \subseteq Applied0
  /\ db.ledger = pre.ledger

\* the other case of C18: no on-disk migrations, first run on a fresh database
C18_EmptyDiskCase ==
  /\ run.cmd = "up" /\ run.pc = "done"
  /\ disk.dirs = {} /\ ~pre.table /\ db.table

\* C20: a ledger entry whose directory is gone makes neither apply nor
\* status fail, and an apply run leaves every ledger entry that existed
\* before it in place: apply only adds entries.
C20_OrphansTolerated ==
  LET orphans == LedgerNames(pre.ledger) \ disk.dirs IN
  /\ run.cmd = "up" =>
       /\ pre.ledger \subseteq db.ledger
       /\ tx.open => pre.ledger \subseteq tx.ledger
       /\ \A i \in DOMAIN run.stmts : run.stmts[i][2] \notin orphans
       /\ (run.pc = "exited" /\ ~ConfigError) =>
            /\ run.failed # <<>>
            /\ run.failed[2] \notin orphans
  /\ (run.cmd = "status" /\ ~ConfigError /\ pre.table) =>
       /\ ~run.errored
       /\ run.pc = "exited" => run.opts.exitCode /\ OnDiskPending # {}
       /\ \A i \in DOMAIN run.report : run.report[i][2] \notin orphans
       /\ db = pre

\* C20 witness: an apply run inserts a row while the ledger holds an entry
\* whose directory was deleted
C20_Witness ==
  /\ run.cmd = "up" /\ run.pc = "done"
  /\ LedgerNames(pre.ledger) \ disk.dirs # {}
  /\ Inserted(run) # {}
  /\ pre.ledger \subseteq db.ledger

\* the status case of C20
C20_StatusCase ==
  /\ run.cmd = "status" /\ run.pc = "done"
  /\ LedgerNames(pre.ledger) \ disk.dirs # {}

\* C19: apply lists the directory names in sorted order, and directories
\* scaffolded at distinct instants sort in the order of their creation.
C19_CreationOrder ==
  /\ \A i, j \in DOMAIN tree.made :
       Before(tree.made[i].at, tree.made[j].at) =>
         LocaleCompare(tree.made[i].name, tree.made[j].name) < 0
  /\ SortDirNames(MadeNames) = [i \in DOMAIN tree.made |-> tree.made[i].name]
  /\ \A i \in DOMAIN tree.listing : tree.listing[i] = tree.made[i].name

\* C19 witness: three directories listed, made across a change of month
\* width, the later ones with the smaller slug
C19_Witness ==
  /\ Len(tree.listing) = 3
  /\ tree.made[1].at.month = 9 /\ tree.made[2].at.month = 10
  /\ Last(tree.made[1].name) = "b" /\ Last(tree.made[2].name) = "a"
  /\ Before(tree.made[1].at, tree.made[2].at)
  /\ Before(tree.made[2].at, tree.made[3].at)

\* the revert target's row as it was before the run
TargetRows == {r \in pre.ledger : r.name = run.lastName}

\* C21: when the revert target's directory is gone, revert runs no
\* migration SQL, deletes the target's ledger row, commits and exits 0; the
\* only way it fails is the server rejecting the DELETE.
C21_RevertOrphan ==
  (run.cmd = "down" /\ run.lastName # 0 /\ run.lastName \notin disk.dirs) =>
    /\ NamesOf(run.stmts, "SCRIPT") = <<>>
    /\ run.failed # <<>> => run.failed = Stmt("DELETE", run.lastName)
    /\ (Finished /\ run.failed = <<>>) =>
         /\ run.pc = "done" /\ run.exitCode = 0
         /\ run.stmts = <<Stmt("SELECT", 0), Stmt("BEGIN", 0),
                          Stmt("DELETE", run.lastName), Stmt("COMMIT", 0)>>
         /\ db.ledger = pre.ledger \ TargetRows
         /\ run.lastName \notin LedgerNames(db.ledger)
         /\ db.schema = pre.schema

\* C21 witness: a committed revert whose target has no directory while
\* another migration is still on disk and applied
C21_Witness ==
  /\ run.cmd = "down" /\ run.pc = "done"
  /\ run.lastName # 0 /\ run.lastName \notin disk.dirs
  /\ run.lastName \in LedgerNames(pre.ledger)
  /\ disk.dirs \cap LedgerNames(db.ledger) # {}

\* C22: the committed ledger holds at most one row per name; rows appear
\* only by a committed apply run in which the name was on disk and its
\* up.sql was executed, and disappear only by a committed revert of the name.
C22_LedgerRows ==
  /\ \A r1, r2 \in db.ledger : r1.name = r2.name => r1 = r2
  /\ \A r \in db.ledger \ pre.ledger :
       /\ run.cmd = "up" /\ run.pc = "done"
       /\ r.name \in disk.dirs /\ disk.up[r.name] \notin {"absent", "bad"}
       /\ r.run_on = clock
       /\ \E i \in DOMAIN run.stmts :
            /\ run.stmts[i] = Stmt("SCRIPT", r.name)
            /\ run.stmts[i + 1] = Stmt("INSERT", r.name)
       /\ Last(run.stmts) = Stmt("COMMIT", 0)
       /\ disk.up[r.name] = "ok" => r.name \in db.schema
  /\ \A r \in pre.ledger \ db.ledger :
       /\ run.cmd = "down" /\ run.pc = "done"
       /\ r.name = run.lastName
       /\ Has(run.stmts, Stmt("DELETE", r.name))
       /\ Last(run.stmts) = Stmt("COMMIT", 0)

\* C22 witness: an apply run has added two rows to a ledger that had one
C22_Witness ==
  /\ run.cmd = "up" /\ run.pc = "done"
  /\ Cardinality(pre.ledger) = 1
  /\ Cardinality(db.ledger \ pre.ledger) = 2

\* the row-removal case of C22
C22_RevertCase ==
  /\ run.cmd = "down" /\ run.pc = "done"
  /\ Cardinality(pre.ledger \ db.ledger) = 1
  /\ db.ledger # {}

\* C23: within one apply or revert run no script is executed twice, and
\* the first failing statement is followed by the rollback only, after which
\* the command has exited with code 1.
C23_NoRetry ==
  run.cmd \in {"up", "down"} =>
    /\ \A i, j \in DOMAIN run.stmts :
         (run.stmts[i][1] = "SCRIPT" /\ run.stmts[i] = run.stmts[j]) => i = j
    /\ run.failed # <<>> =>
         /\ run.pc = "exited" /\ run.exitCode = 1
         /\ Len(run.stmts) >= 2
         /\ run.stmts[Len(run.stmts) - 1] = run.failed
         /\ Last(run.stmts) = Stmt("ROLLBACK", 0)
         /\ \A i \in 1..(Len(run.stmts) - 2) : run.stmts[i] # run.failed

\* C23 witness: the second script of a batch fails after the first was
\* executed and recorded
C23_Witness ==
  /\ run.cmd = "up" /\ run.pc = "exited"
  /\ run.failed # <<>> /\ run.failed[1] = "SCRIPT"
  /\ NamesOf(run.stmts, "INSERT") # <<>>
  /\ Len(run.allMigs) = 3 /\ run.idx = 2

\* C24 as stated: after an apply run that applied several migrations in one
\* batch, the next revert targets the one applied last.
C24_BatchReverseOrder ==
  ( /\ run.cmd = "down" /\ run.lastName # 0 /\ Len(hist) >= 1
    /\ Past(0).run.cmd = "up" /\ Past(0).run.pc = "done"
    /\ Inserted(Past(0).run) # {} ) =>
    run.lastName = Last(NamesOf(Past(0).run.stmts, "INSERT"))

\* C25: a successful revert removes the target's ledger row and nothing
\* else, and runs no script other than the target's down.sql, at most once.
C25_RevertFrame ==
  (run.cmd = "down" /\ run.pc = "done" /\ run.lastName # 0) =>
    /\ Cardinality(TargetRows) = 1
    /\ db.ledger = pre.ledger \ TargetRows
    /\ Cardinality(db.ledger) = Cardinality(pre.ledger) - 1
    /\ Len(NamesOf(run.stmts, "SCRIPT")) <= 1
    /\ \A i \in DOMAIN run.stmts :
         run.stmts[i][1] \in {"SCRIPT", "DELETE"} => run.stmts[i][2] = run.lastName
    /\ db.schema \subseteq pre.schema
    /\ pre.schema \ db.schema \subseteq {run.lastName}

\* C25 witness: a revert that ran its script leaves two other rows alone
C25_Witness ==
  /\ run.cmd = "down" /\ run.pc = "done"
  /\ Has(run.stmts, Stmt("SCRIPT", run.lastName))
  /\ Cardinality(pre.ledger) = 3 /\ Cardinality(db.ledger) = 2
  /\ db.ledger \subseteq pre.ledger

\* C26: revert and status against a database without the ledger table end
\* with exit code 1 and do not create it; the table appears only by a
\* committed apply, so a failed first apply leaves it absent.
C26_OnlyApplyCreates ==
  /\ (run.cmd = "down" /\ run.connected /\ ~pre.table) =>
       /\ run.pc = "exited" /\ run.exitCode = 1
       /\ run.failed = Stmt("SELECT", 0)
       /\ ~db.table
  /\ (run.cmd = "status" /\ run.connected /\ ~pre.table) =>
       /\ run.pc = "exited" /\ run.exitCode = 1
       /\ run.failed = Stmt("SELECT", 0)
       /\ run.report = <<>> /\ run.summary = <<>>
       /\ ~db.table
  /\ (db.table /\ ~pre.table) =>
       run.cmd = "up" /\ run.pc = "done" /\ Has(run.stmts, Stmt("CREATE", 0))
  /\ (run.cmd = "up" /\ run.pc = "exited" /\ ~pre.table) => ~db.table

\* C26 witness: status fails on the missing table after a first apply that
\* connected and failed
C26_Witness ==
  /\ run.cmd = "status" /\ run.connected /\ run.pc = "exited"
  /\ ~pre.table /\ ~db.table /\ disk.dirs # {}
  /\ Len(hist) >= 1
  /\ Past(0).run.cmd = "up" /\ Past(0).run.pc = "exited"
  /\ Has(Past(0).run.stmts, Stmt("CREATE", 0))

\* the revert case of C26
C26_RevertCase ==
  /\ run.cmd = "down" /\ run.connected /\ run.pc = "exited"
  /\ ~pre.table /\ ~db.table

\* C28: a status run never changes the database or the migrations
\* directory, never has a transaction open and issues no statement other
\* than the SELECT on the ledger.
C28_StatusReadOnly ==
  [][ (run'.cmd = "status" /\ run' # run) =>
        /\ db' = db /\ disk' = disk
        /\ tx = NoTx /\ tx' = NoTx
        /\ \A i \in DOMAIN run'.stmts : run'.stmts[i] = Stmt("SELECT", 0)
        /\ Len(run'.stmts) <= 1 ]_vars

\* C28 witness: a status run has listed applied and pending migrations
C28_Witness ==
  /\ run.cmd = "status" /\ run.pc = "done" /\ ~run.opts.quiet
  /\ \E i, j \in DOMAIN run.report :
       run.report[i][1] = "X" /\ run.report[j][1] = " "
  /\ db = pre /\ tx = NoTx

\* the error path of C28: the SELECT is rejected
C28_ErrorCase ==
  /\ run.cmd = "status" /\ run.errored /\ run.pc = "exited"
  /\ run.stmts = <<Stmt("SELECT", 0)>>

\* C30 as stated: from the same database and disk, with the same target
\* and the same failing statement, the bun-sql revert leaves the ledger and
\* the schema that the pg revert leaves.
C30_SameOutcome ==
  (run.cmd = "down" /\ Finished /\ run.lastName # 0) =>
    LET b == BunDown(pre, run.lastName,
                     run.failed = Stmt("DELETE", run.lastName))
    IN b.ledger = db.ledger /\ b.schema = db.schema

\* C29 as stated: pool.end() is called at most once, and exactly once
\* when an exit command has closed the session.
C29_PoolEndedOnce ==
  /\ repl.ends <= 1
  /\ ( /\ repl.rl = "closed"
       /\ \E i \in DOMAIN repl.log : repl.log[i] = "exit" ) => repl.ends = 1

\* C27: with two apply processes interleaved in any way, the committed
\* ledger holds each name at most once and each migration's effects are
\* committed at most once, together with its ledger entry; a process that
\* failed has left nothing of its batch behind.
C27_NoDoubleApply ==
  /\ \A n \in Names :
       /\ Cardinality({r \in race.db.ledger : r.name = n}) <= 1
       /\ race.db.effects[n] <= 1
       /\ race.db.effects[n] = 1 => n \in LedgerNames(race.db.ledger)
  /\ \A p \in Procs :
       race.p[p].pc = "exited" =>
         /\ race.p[p].rows = {} /\ race.p[p].ran = {}
         /\ \A r \in race.db.ledger : r.run_on # race.p[p].now

\* C27 witness: both processes ran the scripts of two migrations; one
\* committed them, the other lost the race on the first name and rolled back
C27_Witness ==
  \E p \in Procs :
    /\ race.p[p].pc = "done" /\ race.p[Other(p)].pc = "exited"
    /\ race.p[Other(p)].failed = Stmt("INSERT", 1)
    /\ race.p[Other(p)].applied = {}
    /\ LedgerNames(race.db.ledger) = {1, 2}
    /\ race.db.effects[1] = 1 /\ race.db.effects[2] = 1

====
